---- MODULE Spec2Model ----
(***************************************************************************)
(* Model of two pieces of browser-side state keeping:                      *)
(*                                                                         *)
(*  - MonacoSemanticHighlightingService: the per-URI cache of highlighting *)
(*    ranges and of the decoration ids applied to the editor               *)
(*    (packages/monaco/src/browser/monaco-semantic-highlighting-service.ts)*)
(*  - OutputWidget: the selected output channel, the update requests and   *)
(*    what the widget last rendered                                        *)
(*    (packages/output/src/browser/output-widget.ts)                       *)
(*                                                                         *)
(* Spec       is the highlighting service with its editors,                *)
(* SpecOutput is the output widget with its channel manager.               *)
(***************************************************************************)
EXTENDS Integers, Sequences, FiniteSets, TLC

\* ------------------------------------------------------------------------
\* Bounds of the model
\* ------------------------------------------------------------------------

\* decorate() calls issued in one behaviour
MaxCalls == 2

\* editors opened in one behaviour
MaxEditors == 2

\* ------------------------------------------------------------------------
\* Highlighting service: values
\* ------------------------------------------------------------------------

\* document URIs (uri.toString() is the key of both maps)
URIs == {"u1", "u2"}

\* "no editor widget" / "no entry"
NoEditor == 0

\* SemanticHighlightingRange values used as inputs
Pos(l, c) == [line |-> l, character |-> c]

SHRange(l, c, n, s) == [start |-> Pos(l, c), end |-> Pos(l, c + n), scopes |-> s]

rA == SHRange(1, 0, 3, <<"keyword">>)

rB == SHRange(1, 4, 2, <<"variable", "source">>)

rC == SHRange(2, 0, 5, <<>>)

\* the `ranges` arguments of decorate()
RangeLists == {<<>>, <<rA>>, <<rC>>, <<rB, rC>>}

\* DecorationWithRanges.EMPTY, also used for "no entry in the map" with has = FALSE
EMPTY == [ranges |-> <<>>, decorations |-> <<>>]

NoEntry == [has |-> FALSE, ranges |-> <<>>, decorations |-> <<>>]

Entry(r, d) == [has |-> TRUE, ranges |-> r, decorations |-> d]

\* this.decorations.get(key) || DecorationWithRanges.EMPTY
OldState(e) == IF e.has THEN [ranges |-> e.ranges, decorations |-> e.decorations] ELSE EMPTY

\* the elements of a sequence
Range(s) == {s[i] : i \in 1..Len(s)}

\* ------------------------------------------------------------------------
\* Highlighting service: pure functions
\* ------------------------------------------------------------------------

\* toOptions: the class of the first scope, {} when there is no scope
toOptions(scopes) ==
    IF Len(scopes) > 0 THEN [inlineClassName |-> scopes[1]] ELSE [none |-> TRUE]

\* toDecoration: both characters are shifted by 2
toDecoration(r) ==
    [range |-> [start |-> Pos(r.start.line, r.start.character + 2),
                end |-> Pos(r.end.line, r.end.character + 2)],
     options |-> toOptions(r.scopes)]

\* new Set(ranges.map(r => r.start.line))
affectedLines(ranges) == {ranges[i].start.line : i \in 1..Len(ranges)}

\* r => !affectedLines.has(r.start.line)
Unaffected(r, lines) == r.start.line \notin lines

\* oldState.ranges.filter(...)
RECURSIVE Filter(_, _)
Filter(s, lines) ==
    IF s = <<>> THEN <<>>
    ELSE (IF Unaffected(Head(s), lines) THEN <<Head(s)>> ELSE <<>>)
         \o Filter(Tail(s), lines)

\* the merge without the filter on the affected lines
rangesToCacheKeepAll(old, ranges) == old \o ranges

\* oldState.ranges.filter(r => !affectedLines.has(r.start.line)).concat(ranges)
rangesToCache(old, ranges) == Filter(old, affectedLines(ranges)) \o ranges

\* rangesToCache.map(this.toDecoration.bind(this))
newDecorations(rs) == [i \in 1..Len(rs) |-> toDecoration(rs[i])]

\* ------------------------------------------------------------------------
\* State
\* ------------------------------------------------------------------------

VARIABLES
    \* editor manager and editors
    openEditor,             \* URI -> the editor open for it, NoEditor if none
    monacoEditors,          \* the editors that are instances of MonacoEditor
    editorDecorations,      \* editor -> its decorations, a set of [id, decoration]
    onDispose,              \* editor -> keys with a deleteDecorations listener on it
    nextEditor,             \* editors created so far + 1
    nextId,                 \* decoration ids handed out so far + 1
    lastDelta,              \* the last deltaDecorations call
    \* MonacoSemanticHighlightingService
    toDisposeOnEditorClose, \* key -> editor whose listener the entry holds, NoEditor if no entry
    decorations,            \* key -> entry of the decorations map
    pending,                \* decorate() calls suspended on getByUri
    nextCall,               \* decorate() calls issued so far + 1
    disposed,               \* dispose() has been called
    \* the sequential reference for calls in flight
    inOrder                 \* key -> [steady, ranges]

hlVars == <<openEditor, monacoEditors, editorDecorations, onDispose, nextEditor, nextId,
            lastDelta, toDisposeOnEditorClose, decorations, pending, nextCall, disposed,
            inOrder>>

Editors == 1..MaxEditors

NoDelta == [editor |-> NoEditor, oldDecorations |-> <<>>, newDecorations |-> <<>>]

InitHL ==
    /\ openEditor = [u \in URIs |-> NoEditor]
    /\ monacoEditors = {}
    /\ editorDecorations = [e \in Editors |-> {}]
    /\ onDispose = [e \in Editors |-> {}]
    /\ nextEditor = 1
    /\ nextId = 1
    /\ lastDelta = NoDelta
    /\ toDisposeOnEditorClose = [u \in URIs |-> NoEditor]
    /\ decorations = [u \in URIs |-> NoEntry]
    /\ pending = {}
    /\ nextCall = 1
    /\ disposed = FALSE
    /\ inOrder = [u \in URIs |-> [steady |-> FALSE, ranges |-> <<>>]]

\* ------------------------------------------------------------------------
\* The editor: deltaDecorations
\* ------------------------------------------------------------------------

\* the ids deltaDecorations returns for n new decorations: fresh, in order
FreshIds(n) == [i \in 1..n |-> nextId + i - 1]

\* the decorations of an editor after deltaDecorations({newDecorations, oldDecorations}):
\* the old ids are removed (unknown ids are ignored), the new ones are added
AfterDelta(decos, old, new) ==
    {d \in decos : d.id \notin Range(old)}
        \cup {[id |-> FreshIds(Len(new))[i], decoration |-> new[i]] : i \in 1..Len(new)}

\* ------------------------------------------------------------------------
\* Environment: the editor manager opens and closes editors
\* ------------------------------------------------------------------------

PendingFor(u) == {c \in pending : c.uri = u}

Unsteady(u) == [inOrder EXCEPT ![u].steady = FALSE]

\* a widget for uri is created; its editor is a MonacoEditor or some other TextEditor
OpenEditor(u, isMonaco) ==
    /\ openEditor[u] = NoEditor
    /\ nextEditor <= MaxEditors
    /\ openEditor' = [openEditor EXCEPT ![u] = nextEditor]
    /\ monacoEditors' = IF isMonaco THEN monacoEditors \cup {nextEditor} ELSE monacoEditors
    /\ nextEditor' = nextEditor + 1
    /\ inOrder' = Unsteady(u)
    /\ UNCHANGED <<editorDecorations, onDispose, nextId, lastDelta, toDisposeOnEditorClose,
                   decorations, pending, nextCall, disposed>>

\* deleteDecorations(uri, editor) for every key with a listener on the editor
DeleteDecorations(keys) ==
    [k \in URIs |-> IF k \in keys /\ decorations[k].has THEN NoEntry ELSE decorations[k]]

\* the editor is disposed: its onDispose listeners run, then the editor is gone
CloseEditor(u) ==
    LET e == openEditor[u]
        hit == {k \in onDispose[e] : decorations[k].has}
    IN  /\ e # NoEditor
        /\ decorations' = DeleteDecorations(onDispose[e])
        /\ lastDelta' = IF hit = {} THEN lastDelta
                        ELSE [editor |-> e,
                              oldDecorations |-> decorations[CHOOSE k \in hit : TRUE].decorations,
                              newDecorations |-> <<>>]
        /\ editorDecorations' = [editorDecorations EXCEPT ![e] = {}]
        /\ onDispose' = [onDispose EXCEPT ![e] = {}]
        /\ openEditor' = [openEditor EXCEPT ![u] = NoEditor]
        /\ inOrder' = Unsteady(u)
        /\ UNCHANGED <<monacoEditors, nextEditor, nextId, toDisposeOnEditorClose,
                       pending, nextCall, disposed>>

\* ------------------------------------------------------------------------
\* MonacoSemanticHighlightingService
\* ------------------------------------------------------------------------

\* decorate(uri, ranges) up to `await this.editorManager.getByUri(uri)`
Decorate(u, ranges) ==
    /\ nextCall <= MaxCalls
    /\ pending' = pending \cup {[n |-> nextCall, uri |-> u, ranges |-> ranges]}
    /\ nextCall' = nextCall + 1
    /\ inOrder' =
         [inOrder EXCEPT ![u] =
            IF PendingFor(u) = {}
            THEN [steady |-> openEditor[u] \in monacoEditors,
                  ranges |-> rangesToCache(OldState(decorations[u]).ranges, ranges)]
            ELSE [steady |-> inOrder[u].steady,
                  ranges |-> rangesToCache(inOrder[u].ranges, ranges)]]
    /\ UNCHANGED <<openEditor, monacoEditors, editorDecorations, onDispose, nextEditor,
                   nextId, lastDelta, toDisposeOnEditorClose, decorations, disposed>>

\* the look-up's guard without the instanceof check
HasAnyEditor(w) == w # NoEditor

\* the two early returns: no widget, or the editor is no MonacoEditor
HasMonacoEditor(w) == w # NoEditor /\ w \in monacoEditors

\* if (!this.toDisposeOnEditorClose.has(key)) { ... set(key, ...) }
RegisterOnClose(key, editor) ==
    /\ toDisposeOnEditorClose' =
         IF toDisposeOnEditorClose[key] = NoEditor
         THEN [toDisposeOnEditorClose EXCEPT ![key] = editor]
         ELSE toDisposeOnEditorClose
    /\ onDispose' =
         IF toDisposeOnEditorClose[key] = NoEditor
         THEN [onDispose EXCEPT ![editor] = @ \cup {key}]
         ELSE onDispose

\* decorate(uri, ranges) from the point where getByUri has resolved
Resolve(c) ==
    LET w == openEditor[c.uri]
        key == c.uri
        oldState == OldState(decorations[key])
        toCache == rangesToCache(oldState.ranges, c.ranges)
        new == newDecorations(toCache)
        newState == FreshIds(Len(new))
    IN  /\ c \in pending
        /\ pending' = pending \ {c}
        /\ IF HasMonacoEditor(w)
           THEN /\ RegisterOnClose(key, w)
                /\ editorDecorations' =
                     [editorDecorations EXCEPT ![w] = AfterDelta(@, oldState.decorations, new)]
                /\ lastDelta' = [editor |-> w, oldDecorations |-> oldState.decorations,
                                 newDecorations |-> new]
                /\ nextId' = nextId + Len(new)
                /\ decorations' = [decorations EXCEPT ![key] = Entry(toCache, newState)]
           ELSE UNCHANGED <<toDisposeOnEditorClose, onDispose, editorDecorations, lastDelta,
                            nextId, decorations>>
        /\ UNCHANGED <<openEditor, monacoEditors, nextEditor, nextCall, disposed, inOrder>>

\* dispose(): every entry of toDisposeOnEditorClose is disposed, which removes its
\* onDispose listener and deletes the entry
Dispose ==
    /\ \E k \in URIs : toDisposeOnEditorClose[k] # NoEditor
    /\ disposed' = TRUE
    /\ onDispose' = [e \in Editors |->
                       onDispose[e] \ {k \in URIs : toDisposeOnEditorClose[k] = e}]
    /\ toDisposeOnEditorClose' = [u \in URIs |-> NoEditor]
    /\ inOrder' = [u \in URIs |-> [inOrder[u] EXCEPT !.steady = FALSE]]
    /\ UNCHANGED <<openEditor, monacoEditors, editorDecorations, nextEditor, nextId,
                   lastDelta, decorations, pending, nextCall>>

\* ------------------------------------------------------------------------
\* Output widget: values
\* ------------------------------------------------------------------------

\* output channel objects created in one behaviour
MaxChannels == 2

\* lines appended to the channels in one behaviour
MaxLines == 1

ChannelIds == 1..MaxChannels

\* selectedChannel === undefined
Undefined == 0

\* channel names
Names == {"A", "B"}

\* private readonly NONE = '<no channels>'
NONE == "<no channels>"

\* texts appended to a channel, as sequences of characters
Texts == {<<>>, <<"a", "\n", "b">>}

NoOutputYet == <<"<no output yet>">>

IsNewline(c) == c \in {"\n", "\r"}

\* the longest prefix of s whose characters are all newlines (nl) or all not
RECURSIVE Prefix(_, _)
Prefix(s, nl) ==
    IF s = <<>> \/ IsNewline(Head(s)) # nl THEN <<>>
    ELSE <<Head(s)>> \o Prefix(Tail(s), nl)

Drop(s, n) == SubSeq(s, n + 1, Len(s))

\* text.split(/([\n\r]+)/): the pieces between runs of newlines, and the runs
RECURSIVE Split(_)
Split(s) ==
    LET t == Prefix(s, FALSE)
        rest == Drop(s, Len(t))
        sep == Prefix(rest, TRUE)
    IN  IF rest = <<>> THEN <<t>>
        ELSE <<t, sep>> \o Split(Drop(rest, Len(sep)))

\* toHtmlText: one div per piece, or the '<no output yet>' div for an empty text
toHtmlText(text) == IF text # <<>> THEN Split(text) ELSE <<NoOutputYet>>

\* VirtualRenderer.flatten
RECURSIVE Flatten(_)
Flatten(ss) == IF ss = <<>> THEN <<>> ELSE Head(ss) \o Flatten(Tail(ss))

VARIABLES
    \* OutputChannelManager and its channels
    channels,           \* the channels of the manager, in insertion order
    chName,             \* channel -> name
    isVisible,          \* channel -> visibility flag
    chLines,            \* channel -> getLines()
    nextChannel,        \* channel objects created so far + 1
    \* OutputWidget
    selectedChannel,    \* the selected channel, Undefined if none
    updatePending,      \* update() was called and the widget has not rendered since
    renderedOptions,    \* the values of the options of the rendered selector
    renderedContents,   \* the divs of the rendered contents pane
    ev                  \* the last event handled: its type, its arguments, the selection before it

outVars == <<channels, chName, isVisible, chLines, nextChannel, selectedChannel,
             updatePending, renderedOptions, renderedContents, ev>>

Created == 1..(nextChannel - 1)

NoEvent == [type |-> "none", ch |-> Undefined, name |-> "", visible |-> FALSE,
            before |-> Undefined]

Event(t, c, n, v) == [type |-> t, ch |-> c, name |-> n, visible |-> v,
                      before |-> selectedChannel]

\* outputChannelManager.getChannel(name): the channel of that name, if there is one
getChannel(name) ==
    IF \E i \in 1..Len(channels) : chName[channels[i]] = name
    THEN channels[CHOOSE i \in 1..Len(channels) : chName[channels[i]] = name]
    ELSE Undefined

\* getChannels().filter(channel => channel.isVisible), for a manager and flags
getVisibleChannels(chs, vis) == SelectSeq(chs, LAMBDA c : vis[c])

\* getVisibleChannels()[0]
FirstOf(s) == IF s = <<>> THEN Undefined ELSE s[1]

\* the state before init(): nothing selected, nothing rendered
OutputIdle ==
    /\ channels = <<>>
    /\ chName = [c \in ChannelIds |-> ""]
    /\ isVisible = [c \in ChannelIds |-> FALSE]
    /\ chLines = [c \in ChannelIds |-> <<>>]
    /\ nextChannel = 1
    /\ selectedChannel = Undefined
    /\ updatePending = FALSE
    /\ renderedOptions = <<>>
    /\ renderedContents = <<>>
    /\ ev = NoEvent

\* init(): the listeners of the channels the manager already has are registered,
\* which selects the first of them, and an update is requested
InitOutput ==
    \E n \in 0..1, v \in BOOLEAN :
        /\ channels = [i \in 1..n |-> i]
        /\ chName = [c \in ChannelIds |-> IF c <= n THEN "A" ELSE ""]
        /\ isVisible = [c \in ChannelIds |-> c <= n /\ v]
        /\ chLines = [c \in ChannelIds |-> <<>>]
        /\ nextChannel = n + 1
        /\ selectedChannel = (IF n > 0 THEN 1 ELSE Undefined)
        /\ updatePending = TRUE
        /\ renderedOptions = <<>>
        /\ renderedContents = <<>>
        /\ ev = NoEvent

\* ------------------------------------------------------------------------
\* Output widget: handlers
\* ------------------------------------------------------------------------

\* registerListener: if (!this.selectedChannel) this.selectedChannel = outputChannel
RegisterListener(c) == IF selectedChannel = Undefined THEN c ELSE selectedChannel

\* the delete handler without the comparison of the names
OnChannelDeleteAlways(name, chs) == FirstOf(getVisibleChannels(chs, isVisible))

\* onChannelDelete handler, run on the manager's channels after the deletion
OnChannelDelete(name, chs) ==
    IF selectedChannel # Undefined /\ chName[selectedChannel] = name
    THEN FirstOf(getVisibleChannels(chs, isVisible))
    ELSE selectedChannel

\* the visibility handler without the test for the selected channel
OnVisibilityChangeAlways(c, visible, vis) ==
    IF visible THEN c ELSE FirstOf(getVisibleChannels(channels, vis))

\* onVisibilityChange handler of channel c, run on the flags after the change
OnVisibilityChange(c, visible, vis) ==
    IF visible THEN c
    ELSE IF c = selectedChannel THEN FirstOf(getVisibleChannels(channels, vis))
    ELSE selectedChannel

\* onContentChange handler of channel c: update() only for the selected channel
OnContentChange(c) == updatePending \/ c = selectedChannel

\* the onchange handler without the call of update()
OnChangeNoUpdate(value) ==
    IF value # NONE
    THEN /\ selectedChannel' = getChannel(value)
         /\ UNCHANGED updatePending
    ELSE UNCHANGED <<selectedChannel, updatePending>>

\* onchange handler of the selector
OnChange(value) ==
    IF value # NONE
    THEN /\ selectedChannel' = getChannel(value)
         /\ updatePending' = TRUE
    ELSE UNCHANGED <<selectedChannel, updatePending>>

\* renderChannelSelector: one option per visible channel, or the NONE option
renderChannelSelector ==
    LET vis == getVisibleChannels(channels, isVisible)
    IN  IF vis = <<>> THEN <<NONE>> ELSE [i \in 1..Len(vis) |-> chName[vis[i]]]

\* renderChannelContents
renderChannelContents ==
    IF selectedChannel # Undefined
    THEN Flatten([i \in 1..Len(chLines[selectedChannel]) |->
                    toHtmlText(chLines[selectedChannel][i])])
    ELSE <<>>

TotalLines == LET RECURSIVE Sum(_)
                  Sum(n) == IF n = 0 THEN 0 ELSE Len(chLines[n]) + Sum(n - 1)
              IN  Sum(MaxChannels)

\* ------------------------------------------------------------------------
\* Output widget: events
\* ------------------------------------------------------------------------

\* the manager creates a channel and fires onChannelAdded
AddChannel(name) ==
    LET c == nextChannel
    IN  /\ nextChannel <= MaxChannels
        /\ getChannel(name) = Undefined
        /\ channels' = Append(channels, c)
        /\ chName' = [chName EXCEPT ![c] = name]
        /\ isVisible' = [isVisible EXCEPT ![c] = TRUE]
        /\ nextChannel' = nextChannel + 1
        /\ selectedChannel' = RegisterListener(c)
        /\ updatePending' = TRUE
        /\ ev' = Event("added", c, name, TRUE)
        /\ UNCHANGED <<chLines, renderedOptions, renderedContents>>

\* the manager deletes a channel and fires onChannelDelete
DeleteChannel(name) ==
    LET c == getChannel(name)
        chs == SelectSeq(channels, LAMBDA x : x # c)
    IN  /\ c # Undefined
        /\ channels' = chs
        /\ selectedChannel' = OnChannelDelete(name, chs)
        /\ updatePending' = TRUE
        /\ ev' = Event("delete", c, name, FALSE)
        /\ UNCHANGED <<chName, isVisible, chLines, nextChannel, renderedOptions,
                       renderedContents>>

\* a channel with a registered listener changes its visibility
SetVisibility(c, visible) ==
    LET vis == [isVisible EXCEPT ![c] = visible]
    IN  /\ c \in Created
        /\ isVisible' = vis
        /\ selectedChannel' = OnVisibilityChange(c, visible, vis)
        /\ updatePending' = TRUE
        /\ ev' = Event("visibility", c, chName[c], visible)
        /\ UNCHANGED <<channels, chName, chLines, nextChannel, renderedOptions,
                       renderedContents>>

\* a line is appended to a channel with a registered listener
AppendLine(c, text) ==
    /\ c \in Created
    /\ TotalLines < MaxLines
    /\ chLines' = [chLines EXCEPT ![c] = Append(@, text)]
    /\ updatePending' = OnContentChange(c)
    /\ ev' = Event("content", c, chName[c], FALSE)
    /\ UNCHANGED <<channels, chName, isVisible, nextChannel, selectedChannel,
                   renderedOptions, renderedContents>>

\* the user picks one of the rendered options
SelectChange(value) ==
    /\ value \in Range(renderedOptions)
    /\ OnChange(value)
    /\ ev' = Event("select", Undefined, value, FALSE)
    /\ UNCHANGED <<channels, chName, isVisible, chLines, nextChannel, renderedOptions,
                   renderedContents>>

\* the pending update request is processed: render()
Render ==
    /\ updatePending
    /\ updatePending' = FALSE
    /\ renderedOptions' = renderChannelSelector
    /\ renderedContents' = renderChannelContents
    /\ ev' = Event("render", Undefined, "", FALSE)
    /\ UNCHANGED <<channels, chName, isVisible, chLines, nextChannel, selectedChannel>>

\* ------------------------------------------------------------------------
\* Specifications
\* ------------------------------------------------------------------------

vars == <<hlVars, outVars>>

Init == InitHL /\ OutputIdle

Next ==
    \/ \E u \in URIs, m \in BOOLEAN : OpenEditor(u, m) /\ UNCHANGED outVars
    \/ \E u \in URIs : CloseEditor(u) /\ UNCHANGED outVars
    \/ \E u \in URIs, r \in RangeLists : Decorate(u, r) /\ UNCHANGED outVars
    \/ \E c \in pending : Resolve(c) /\ UNCHANGED outVars
    \/ Dispose /\ UNCHANGED outVars

Spec == Init /\ [][Next]_vars

\* the widget after init(), next to a highlighting service nobody uses
InitWidget == InitHL /\ InitOutput

NextOutput ==
    \/ \E n \in Names : AddChannel(n) /\ UNCHANGED hlVars
    \/ \E n \in Names : DeleteChannel(n) /\ UNCHANGED hlVars
    \/ \E c \in ChannelIds, v \in BOOLEAN : SetVisibility(c, v) /\ UNCHANGED hlVars
    \/ \E c \in ChannelIds, t \in Texts : AppendLine(c, t) /\ UNCHANGED hlVars
    \/ \E v \in Names \cup {NONE} : SelectChange(v) /\ UNCHANGED hlVars
    \/ Render /\ UNCHANGED hlVars

SpecOutput == InitWidget /\ [][NextOutput]_vars

\* ------------------------------------------------------------------------
\* Properties of the highlighting service (checked under Spec)
\* ------------------------------------------------------------------------

\* the ids of the decorations on an editor
IdsOn(e) == {d.id : d \in editorDecorations[e]}

NoMonacoEditorFor(u) == openEditor[u] = NoEditor \/ openEditor[u] \notin monacoEditors

\* C1: as long as the service is not disposed, every URI with an entry in the
\* decorations cache has an open editor, and the cached ids are exactly the ids of
\* the decorations on that editor.
C1_CacheMatchesEditor ==
    ~disposed =>
        \A u \in URIs :
            decorations[u].has =>
                /\ openEditor[u] # NoEditor
                /\ Range(decorations[u].decorations) = IdsOn(openEditor[u])

\* C2: a decorate(uri, ranges) that finds a Monaco editor leaves in the cache the
\* old ranges whose start line is the start line of no new range, in their old
\* order, followed by the new ranges in the given order.
C2_MergeByLine ==
    [][\A c \in pending :
          (pending' = pending \ {c} /\ ~NoMonacoEditorFor(c.uri)) =>
              LET old == IF decorations[c.uri].has THEN decorations[c.uri].ranges ELSE <<>>
                  new == decorations'[c.uri].ranges
                  k == Len(new) - Len(c.ranges)
              IN  /\ decorations'[c.uri].has
                  /\ k >= 0
                  /\ SubSeq(new, k + 1, Len(new)) = c.ranges
                  /\ SubSeq(new, 1, k) =
                       SelectSeq(old, LAMBDA r :
                           \A i \in 1..Len(c.ranges) : c.ranges[i].start.line # r.start.line)
                  /\ \A i \in 1..k, j \in 1..Len(c.ranges) :
                       new[i].start.line # c.ranges[j].start.line]_vars

\* C2 witness: <<rB, rC>> was cached and <<rA>> decorated: rB (line 1) is gone,
\* rC (line 2) survived in front of rA.
C2_Witness ==
    \E u \in URIs : decorations[u].has /\ decorations[u].ranges = <<rC, rA>>

\* C3: a decorate(uri, ranges) whose look-up finds no widget, or a widget whose
\* editor is no MonacoEditor, changes neither the decorations cache nor
\* toDisposeOnEditorClose nor the decorations (or listeners) of any editor.
C3_NoEditorNoop ==
    [][\A c \in pending :
          (pending' = pending \ {c} /\ NoMonacoEditorFor(c.uri)) =>
              /\ decorations' = decorations
              /\ toDisposeOnEditorClose' = toDisposeOnEditorClose
              /\ editorDecorations' = editorDecorations
              /\ onDispose' = onDispose
              /\ lastDelta' = lastDelta]_vars

\* C3 witness: every issued call has resolved, an editor that is no MonacoEditor is
\* open, and deltaDecorations was never called.
C3_Witness ==
    /\ nextCall > 1
    /\ pending = {}
    /\ lastDelta = NoDelta
    /\ \E u \in URIs : openEditor[u] # NoEditor /\ openEditor[u] \notin monacoEditors
    /\ \A u \in URIs : ~decorations[u].has /\ toDisposeOnEditorClose[u] = NoEditor

\* C6: when the calls that were in flight together for a URI have all resolved
\* (with the same Monaco editor open throughout), the cached ranges are those of
\* running the calls one at a time in the order they were issued, and the cached
\* ids are exactly the ids on the editor.
C6_InFlightOrder ==
    \A u \in URIs :
        (inOrder[u].steady /\ PendingFor(u) = {}) =>
            /\ decorations[u].has
            /\ decorations[u].ranges = inOrder[u].ranges
            /\ Range(decorations[u].decorations) = IdsOn(openEditor[u])

\* C7: when an editor that carries decorations of the service is disposed (and the
\* service is not), deltaDecorations is called on it with no new decorations and the
\* cached ids as old ones, and the URI's entry is removed from the cache.
C7_DisposeClearsCache ==
    [][\A u \in URIs :
          (/\ ~disposed
           /\ openEditor[u] # NoEditor
           /\ openEditor'[u] = NoEditor
           /\ editorDecorations[openEditor[u]] # {}) =>
              /\ ~decorations'[u].has
              /\ lastDelta' = [editor |-> openEditor[u],
                               oldDecorations |-> decorations[u].decorations,
                               newDecorations |-> <<>>]]_vars

\* ------------------------------------------------------------------------
\* Properties of the output widget (checked under SpecOutput)
\* ------------------------------------------------------------------------

\* x is the first visible channel of the manager chs, Undefined if none is visible
IsFirstVisible(x, chs, vis) ==
    IF \E i \in 1..Len(chs) : vis[chs[i]]
    THEN \E i \in 1..Len(chs) :
            /\ chs[i] = x
            /\ vis[x]
            /\ \A j \in 1..(i - 1) : ~vis[chs[j]]
    ELSE x = Undefined

\* C4: a change of the selector to a name for which the manager has no channel
\* leaves the selected channel as it was.
C4_UnknownChannelNoop ==
    [][(/\ ev'.type = "select"
        /\ ev'.name # NONE
        /\ getChannel(ev'.name) = Undefined) =>
            selectedChannel' = selectedChannel]_vars

\* C5: a change of the selector to the name of a channel of the manager selects
\* that channel and requests an update; a change to the placeholder changes
\* neither the selection nor the update request; and whenever no update is
\* pending, the contents pane shows the lines of the selected channel.
C5_SelectRenders ==
    [][/\ (ev'.type = "select" /\ ev'.name = NONE) =>
              /\ selectedChannel' = selectedChannel
              /\ updatePending' = updatePending
       /\ (/\ ev'.type = "select"
           /\ ev'.name # NONE
           /\ \E i \in 1..Len(channels) : chName[channels[i]] = ev'.name) =>
              /\ selectedChannel' \in Range(channels)
              /\ chName[selectedChannel'] = ev'.name
              /\ updatePending'
       /\ ~updatePending' => renderedContents' = renderChannelContents']_vars

\* C5 witness: the selector changed the selection to another channel, which has lines.
C5_Witness ==
    /\ ev.type = "select"
    /\ ev.name # NONE
    /\ selectedChannel # Undefined
    /\ selectedChannel # ev.before
    /\ chName[selectedChannel] = ev.name
    /\ chLines[selectedChannel] # <<>>

\* C8: after a visibility-change event of a channel: it is selected if it became
\* visible; if it became invisible and was selected, the first visible channel of
\* the manager (or none) is selected; if it became invisible and was not selected,
\* the selection is unchanged. An update is requested in every case.
C8_VisibilityChange ==
    [][ev'.type = "visibility" =>
          /\ ev'.visible => selectedChannel' = ev'.ch
          /\ (~ev'.visible /\ selectedChannel = ev'.ch) =>
                IsFirstVisible(selectedChannel', channels', isVisible')
          /\ (~ev'.visible /\ selectedChannel # ev'.ch) =>
                selectedChannel' = selectedChannel
          /\ updatePending']_vars

\* C8 witness: the selected channel became invisible and another one is selected now.
C8_Witness ==
    /\ ev.type = "visibility"
    /\ ~ev.visible
    /\ ev.before = ev.ch
    /\ selectedChannel \notin {Undefined, ev.ch}

\* C9: after a channel-delete event: the selection is unchanged if the name of the
\* deleted channel is not the name of the selected one; if the deleted channel was
\* selected, the first visible channel of the manager (or none) is selected; the
\* deleted channel is never selected afterwards.
C9_ChannelDelete ==
    [][ev'.type = "delete" =>
          /\ (selectedChannel = Undefined \/ chName[selectedChannel] # ev'.name) =>
                selectedChannel' = selectedChannel
          /\ selectedChannel = ev'.ch =>
                IsFirstVisible(selectedChannel', channels', isVisible')
          /\ selectedChannel' # ev'.ch]_vars

\* C9 witness: the selected channel was deleted and another one is selected now.
C9_Witness ==
    /\ ev.type = "delete"
    /\ ev.before = ev.ch
    /\ selectedChannel \notin {Undefined, ev.ch}

====
